---- MODULE Spec2Model ----
(***************************************************************************)
(* Model of outline_vpn.OutlineVPN (src/outline_vpn/outline_vpn.py): a     *)
(* client of the Outline management API.  Every method is translated from  *)
(* its code as a function of the HTTP responses it receives.  A method     *)
(* that issues two requests (get_keys, create_key with a name) is split at *)
(* its second request, so that other callers and the server can act in     *)
(* between.  The remote server and the certificate check are not part of   *)
(* the source file; they are modelled from the written interface.          *)
(***************************************************************************)
EXTENDS Integers, Sequences, FiniteSets, TLC

\* Most access keys the server creates in one run (identifiers 1..MaxKeys).
MaxKeys == 2

Callers == {"c1", "c2"}

\* HTTP status codes a response may carry.
Statuses == {200, 201, 204, 400, 404, 409}

ApiUrls == {"https://vpn.example:443/SecretPath"}

\* Python's None and an optional value that is present.
None == <<>>
Some(v) == <<v>>

\* Truthiness of an Optional[str]: None and "" are falsy.
Truthy(o) == o # None /\ o[1] # ""

\* key_name arguments given to create_key.
KeyNameArgs == {None, Some(""), Some("a")}
\* name arguments given to rename_key.
NameArgs == {"a"}
KeyIds == 1..MaxKeys

\* Certificate fingerprints (hex strings) and str.lower() on them.
Fingerprints == {"ab12", "AB12", "cd34"}
Lower(s) == IF s = "AB12" THEN "ab12" ELSE s
PresentedCerts == {"ab12", "cd34"}
CertArgs == {None, Some(""), Some("AB12"), Some("cd34")}

VARIABLES
  client,     \* the OutlineVPN object: [state, api_url]
  ctor,       \* the arguments the constructor was called with
  presented,  \* fingerprint of the certificate the server presents
  fp_checks,  \* number of calls of check_ssl_fingerprint so far
  server,     \* the remote server: [keys, bytes, nextId]
  pc,         \* per caller: "idle", or the second request it is about to send
  frame,      \* per caller: locals of the call in progress
  last,       \* the call that has just completed, with what it returned or raised
  gone        \* identifiers for which delete_key has returned True

vars == <<client, ctor, presented, fp_checks, server, pc, frame, last, gone>>

(***************************************************************************)
(* Results of a call                                                       *)
(***************************************************************************)
Return(v) == [kind |-> "return", value |-> v]
Raise(exc, msg) == [kind |-> "raise", exc |-> exc, msg |-> msg]

ServerError == "OutlineServerErrorException"
PortRangeMsg == "The requested port wasn't an integer from 1 through 65535, or the request had no port parameter."
PortInUseMsg == "The requested port was already in use by another service."

\* response.json() on a body that is not JSON.
JSONDecodeError == Raise("JSONDecodeError", "")

\* dict.get(k): None when the key is absent.
Get(d, k) == IF k \in DOMAIN d THEN Some(d[k]) ELSE None

NoArgs == [none |-> TRUE]
NoData == [none |-> TRUE]

(***************************************************************************)
(* Requests                                                                *)
(***************************************************************************)
Request(self, method, path, key_id, data) ==
  [method |-> method, base |-> self.api_url, path |-> path,
   key_id |-> key_id, data |-> data, verify |-> FALSE]

(***************************************************************************)
(* The remote server (the management API as written in the interface       *)
(* description): it holds the access keys and the per-key transfer         *)
(* metrics.  It may answer any request with any status; a request takes    *)
(* effect exactly when it is answered with its success status.             *)
(***************************************************************************)
ServerKey(id, name) ==
  [id |-> id, name |-> name, password |-> "pw", port |-> 8388,
   method |-> "chacha20-ietf-poly1305", accessUrl |-> "ss://key"]

KeyIdsOf(srv) == {srv.keys[i].id : i \in DOMAIN srv.keys}

\* The statuses the server can answer req with in state srv.
ServerStatuses(srv, req) ==
  {st \in Statuses :
     /\ (req.method = "POST" /\ st = 201) => srv.nextId <= MaxKeys
     /\ (req.key_id # 0 /\ st = 204) => req.key_id \in KeyIdsOf(srv)}

RemoveKey(keys, id) == SelectSeq(keys, LAMBDA k : k.id # id)

\* The server after answering req with status st.
ServerApply(srv, req, st) ==
  CASE req.method = "POST" /\ st = 201 ->
         [srv EXCEPT !.keys = Append(@, ServerKey(srv.nextId, "")),
                     !.nextId = @ + 1]
    [] req.method = "DELETE" /\ req.path = "/access-keys/{key_id}" /\ st = 204 ->
         [srv EXCEPT !.keys = RemoveKey(@, req.key_id),
                     !.bytes = [i \in DOMAIN @ \ {req.key_id} |-> @[i]]]
    [] req.method = "PUT" /\ req.path = "/access-keys/{key_id}/name" /\ st = 204 ->
         [srv EXCEPT !.keys = [i \in DOMAIN @ |->
                                 IF @[i].id = req.key_id
                                 THEN [@[i] EXCEPT !.name = req.data.name]
                                 ELSE @[i]]]
    [] OTHER -> srv

NotJson == [json |-> FALSE]
Json(obj) == [json |-> TRUE, obj |-> obj]

\* What a body can be: the documented JSON, some other JSON object, or not JSON.
BodyKinds(req) ==
  IF req.method = "GET" THEN {"documented", "other", "notjson"}
  ELSE IF req.method = "POST" THEN {"documented", "notjson"}
  ELSE {"notjson"}

\* The body of the answer to req; srv is the server before the request.
ServerBody(srv, req, st, kind) ==
  CASE kind = "notjson" -> NotJson
    [] kind = "other" -> Json([error |-> "x"])
    [] OTHER ->
      CASE req.path = "/access-keys/" /\ req.method = "GET" ->
             Json([accessKeys |-> srv.keys])
        [] req.path = "/metrics/transfer" ->
             Json([bytesTransferredByUserId |-> srv.bytes])
        [] req.path = "/server" ->
             Json([name |-> "My Server", metricsEnabled |-> TRUE])
        [] req.path = "/metrics/enabled" ->
             Json([metricsEnabled |-> TRUE])
        [] req.method = "POST" /\ st = 201 ->
             Json(ServerKey(srv.nextId, ""))
        [] OTHER -> NotJson

\* Every way the server can answer req: the response and the server afterwards.
Exchanges(srv, req) ==
  {[resp |-> [status |-> st, body |-> ServerBody(srv, req, st, kind)],
    server |-> ServerApply(srv, req, st)] :
     st \in ServerStatuses(srv, req), kind \in BodyKinds(req)}

\* check_ssl_fingerprint: compares the presented certificate's fingerprint
\* with the expected one, ignoring case.
check_ssl_fingerprint(cert, cert_sha256) ==
  IF Lower(cert) = Lower(cert_sha256) THEN "ok" ELSE "CertificateMismatch"

(***************************************************************************)
(* The methods of OutlineVPN as functions of the responses they receive    *)
(***************************************************************************)
OutlineKey(key, used_bytes) ==
  [key_id |-> key.id, name |-> key.name, password |-> key.password,
   port |-> key.port, method |-> key.method, access_url |-> key.accessUrl,
   used_bytes |-> used_bytes]

Pending == [kind |-> "pending"]
Done(outcome) == [next |-> "done", outcome |-> outcome]

\* Mutant: the constructor never checks the fingerprint.
NeedsCheck_never(cert_sha256) == FALSE

\* `if cert_sha256:` in the constructor.
NeedsCheck(cert_sha256) == Truthy(cert_sha256)

\* Mutant: a method stores another URL on the object.
self_after_call_stores(self) == [self EXCEPT !.api_url = "https://other.example"]

\* No method assigns an attribute of self: the object after a method ran.
self_after_call(self) == self

\* get_keys, from the first response to the second request or the raise.
get_keys_after_keys(response) ==
  IF response.status = 200
  THEN IF ~response.body.json THEN Done(JSONDecodeError)
       ELSE IF "accessKeys" \in DOMAIN response.body.obj
            THEN [next |-> "metrics", outcome |-> Pending]
            ELSE Done(Raise(ServerError, "Unable to retrieve keys"))
  ELSE Done(Raise(ServerError, "Unable to retrieve keys"))

\* Mutant: the metrics response must have status 200.
get_keys_after_metrics_200(response, response_metrics) ==
  IF response_metrics.status # 200
  THEN Raise(ServerError, "Unable to get metrics")
  ELSE IF ~response_metrics.body.json THEN JSONDecodeError
  ELSE IF "bytesTransferredByUserId" \notin DOMAIN response_metrics.body.obj
  THEN Raise(ServerError, "Unable to get metrics")
  ELSE LET accessKeys == response.body.obj.accessKeys
           transferred == response_metrics.body.obj.bytesTransferredByUserId
       IN  Return([i \in 1..Len(accessKeys) |->
                     OutlineKey(accessKeys[i], Get(transferred, accessKeys[i].id))])

\* Mutant: the transferred bytes are looked up by position, not by key id.
get_keys_after_metrics_by_index(response, response_metrics) ==
  IF response_metrics.status >= 400
  THEN Raise(ServerError, "Unable to get metrics")
  ELSE IF ~response_metrics.body.json THEN JSONDecodeError
  ELSE IF "bytesTransferredByUserId" \notin DOMAIN response_metrics.body.obj
  THEN Raise(ServerError, "Unable to get metrics")
  ELSE LET accessKeys == response.body.obj.accessKeys
           transferred == response_metrics.body.obj.bytesTransferredByUserId
       IN  Return([i \in 1..Len(accessKeys) |->
                     OutlineKey(accessKeys[i], Get(transferred, i))])

\* get_keys, from the metrics response to its result.
get_keys_after_metrics(response, response_metrics) ==
  IF response_metrics.status >= 400
  THEN Raise(ServerError, "Unable to get metrics")
  ELSE IF ~response_metrics.body.json THEN JSONDecodeError
  ELSE IF "bytesTransferredByUserId" \notin DOMAIN response_metrics.body.obj
  THEN Raise(ServerError, "Unable to get metrics")
  ELSE LET accessKeys == response.body.obj.accessKeys
           transferred == response_metrics.body.obj.bytesTransferredByUserId
       IN  Return([i \in 1..Len(accessKeys) |->
                     OutlineKey(accessKeys[i], Get(transferred, accessKeys[i].id))])

\* Mutant: any 2xx status counts as deleted.
delete_key_result_2xx(response) == Return(response.status < 300)

delete_key_result(response) == Return(response.status = 204)

rename_key_result(response) == Return(response.status = 204)

add_data_limit_result(response) == Return(response.status = 204)

delete_data_limit_result(response) == Return(response.status = 204)

set_server_name_result(response) == Return(response.status = 204)

\* Mutant: success is status 200.
set_hostname_result_200(response) == Return(response.status = 200)

set_hostname_result(response) == Return(response.status = 204)

set_metrics_status_result(response) == Return(response.status = 204)

set_data_limit_for_all_keys_result(response) == Return(response.status = 204)

delete_data_limit_for_all_keys_result(response) == Return(response.status = 204)

\* Mutant: used_bytes is left unset.
create_key_after_post_no_bytes(response, key_name) ==
  IF response.status = 201
  THEN IF ~response.body.json THEN Done(JSONDecodeError)
       ELSE LET outline_key == OutlineKey(response.body.obj, None)
            IN  IF Truthy(key_name)
                THEN [next |-> "rename", outcome |-> Return(outline_key)]
                ELSE Done(Return(outline_key))
  ELSE Done(Raise(ServerError, "Unable to create key"))

\* Mutant: the rename is sent for every key_name that is not None.
create_key_after_post_renames_empty(response, key_name) ==
  IF response.status = 201
  THEN IF ~response.body.json THEN Done(JSONDecodeError)
       ELSE LET outline_key == OutlineKey(response.body.obj, Some(0))
            IN  IF key_name # None
                THEN [next |-> "rename", outcome |-> Return(outline_key)]
                ELSE Done(Return(outline_key))
  ELSE Done(Raise(ServerError, "Unable to create key"))

\* create_key, from the POST response to the rename request or the result.
create_key_after_post(response, key_name) ==
  IF response.status = 201
  THEN IF ~response.body.json THEN Done(JSONDecodeError)
       ELSE LET outline_key == OutlineKey(response.body.obj, Some(0))
            IN  IF Truthy(key_name)
                THEN [next |-> "rename", outcome |-> Return(outline_key)]
                ELSE Done(Return(outline_key))
  ELSE Done(Raise(ServerError, "Unable to create key"))

\* Mutant: the requested name is set whether or not the rename succeeded.
create_key_after_rename_always(outline_key, key_name, response) ==
  Return([outline_key EXCEPT !.name = key_name[1]])

\* create_key, from the response to its rename_key call to the result.
create_key_after_rename(outline_key, key_name, response) ==
  IF rename_key_result(response).value
  THEN Return([outline_key EXCEPT !.name = key_name[1]])
  ELSE Return(outline_key)

get_transferred_data_result(response) ==
  IF response.status >= 400 THEN Raise(ServerError, "Unable to get metrics")
  ELSE IF ~response.body.json THEN JSONDecodeError
  ELSE IF "bytesTransferredByUserId" \notin DOMAIN response.body.obj
  THEN Raise(ServerError, "Unable to get metrics")
  ELSE Return(response.body.obj)

get_server_information_result(response) ==
  IF response.status # 200
  THEN Raise(ServerError, "Unable to get information about the server")
  ELSE IF ~response.body.json THEN JSONDecodeError
  ELSE Return(response.body.obj)

get_metrics_status_result(response) ==
  IF ~response.body.json THEN JSONDecodeError
  ELSE Return(Get(response.body.obj, "metricsEnabled"))

\* Mutant: status 409 is not told apart.
set_port_new_for_access_keys_result_no_409(response) ==
  IF response.status = 400 THEN Raise(ServerError, PortRangeMsg)
  ELSE Return(response.status = 204)

set_port_new_for_access_keys_result(response) ==
  IF response.status = 400 THEN Raise(ServerError, PortRangeMsg)
  ELSE IF response.status = 409 THEN Raise(ServerError, PortInUseMsg)
  ELSE Return(response.status = 204)

(***************************************************************************)
(* State machine                                                           *)
(***************************************************************************)
NoFrame == [op |-> "idle", args |-> NoArgs, sent |-> <<>>, resps |-> <<>>]
NoCall ==
  [op |-> "none", args |-> NoArgs, sent |-> <<>>,
   resps |-> <<>>, outcome |-> [kind |-> "none"]]

Completed(op, args, sent, resps, outcome) ==
  [op |-> op, args |-> args, sent |-> sent, resps |-> resps,
   outcome |-> outcome]

InitRest ==
  /\ fp_checks = 0
  /\ server = [keys |-> <<>>, bytes |-> <<>>, nextId |-> 1]
  /\ pc = [c \in Callers |-> "idle"]
  /\ frame = [c \in Callers |-> NoFrame]
  /\ last = NoCall
  /\ gone = {}

\* A client constructed without a fingerprint: OutlineVPN(api_url).
Init ==
  /\ \E api_url \in ApiUrls :
       /\ client = [state |-> "ok", api_url |-> api_url]
       /\ ctor = [api_url |-> api_url, cert_sha256 |-> None]
  /\ presented = "ab12"
  /\ InitRest

\* Before the constructor is called.
InitCert ==
  /\ client = [state |-> "none", api_url |-> ""]
  /\ ctor = [api_url |-> "", cert_sha256 |-> None]
  /\ presented \in PresentedCerts
  /\ InitRest

\* OutlineVPN.__init__
OutlineVPN_init(api_url, cert_sha256) ==
  /\ client.state = "none"
  /\ ctor' = [api_url |-> api_url, cert_sha256 |-> cert_sha256]
  /\ IF NeedsCheck(cert_sha256)
     THEN /\ fp_checks' = fp_checks + 1
          /\ client' = [state |-> IF check_ssl_fingerprint(presented, cert_sha256[1]) = "ok"
                                  THEN "ok" ELSE "failed",
                        api_url |-> api_url]
     ELSE /\ fp_checks' = fp_checks
          /\ client' = [state |-> "ok", api_url |-> api_url]
  /\ UNCHANGED <<presented, server, pc, frame, last, gone>>

\* The server starts presenting another certificate.
ServerCertChanges ==
  /\ client.state = "ok"
  /\ last = NoCall
  /\ presented' \in PresentedCerts \ {presented}
  /\ UNCHANGED <<client, ctor, fp_checks, server, pc, frame, last, gone>>

\* The server counts traffic of one of its keys.
ServerCountsTraffic ==
  /\ last = NoCall
  /\ \E id \in KeyIdsOf(server) \ DOMAIN server.bytes :
       server' = [server EXCEPT !.bytes =
                    [i \in DOMAIN @ \cup {id} |-> 1000 * i]]
  /\ UNCHANGED <<client, ctor, presented, fp_checks, pc, frame, last, gone>>

\* Caller c can call a method: the object exists and c is not in a call.
CanCall(c) ==
  /\ client.state = "ok"
  /\ last = NoCall
  /\ pc[c] = "idle"

\* A method that sends one request and returns or raises from its response;
\* x is the exchange with the server, outcome what the method makes of it.
Call1(c, op, args, req, x, outcome) ==
  /\ server' = x.server
  /\ last' = Completed(op, args, <<req>>, <<x.resp>>, outcome)
  /\ gone' = IF op = "delete_key" /\ outcome = Return(TRUE)
             THEN gone \cup {args.key_id} ELSE gone
  /\ client' = self_after_call(client)
  /\ UNCHANGED <<ctor, presented, fp_checks, pc, frame>>

get_keys(c) ==
  /\ CanCall(c)
  /\ LET req == Request(client, "GET", "/access-keys/", 0, NoData)
     IN  \E x \in Exchanges(server, req) :
           LET step == get_keys_after_keys(x.resp)
           IN  /\ server' = x.server
               /\ IF step.next = "metrics"
                  THEN /\ pc' = [pc EXCEPT ![c] = "metrics"]
                       /\ frame' = [frame EXCEPT ![c] =
                            [op |-> "get_keys", args |-> NoArgs,
                             sent |-> <<req>>, resps |-> <<x.resp>>]]
                       /\ last' = last
                  ELSE /\ last' = Completed("get_keys", NoArgs, <<req>>,
                                            <<x.resp>>, step.outcome)
                       /\ UNCHANGED <<pc, frame>>
  /\ client' = self_after_call(client)
  /\ UNCHANGED <<ctor, presented, fp_checks, gone>>

get_keys_metrics(c) ==
  /\ last = NoCall
  /\ pc[c] = "metrics"
  /\ LET req == Request(client, "GET", "/metrics/transfer", 0, NoData)
     IN  \E x \in Exchanges(server, req) :
           /\ server' = x.server
           /\ last' = Completed("get_keys", frame[c].args,
                                Append(frame[c].sent, req),
                                Append(frame[c].resps, x.resp),
                                get_keys_after_metrics(frame[c].resps[1], x.resp))
  /\ pc' = [pc EXCEPT ![c] = "idle"]
  /\ frame' = [frame EXCEPT ![c] = NoFrame]
  /\ client' = self_after_call(client)
  /\ UNCHANGED <<ctor, presented, fp_checks, gone>>

NameData(name) == [encoding |-> "multipart", name |-> name]
RenameRequest(self, key_id, name) ==
  Request(self, "PUT", "/access-keys/{key_id}/name", key_id, NameData(name))

create_key(c, key_name) ==
  /\ CanCall(c)
  /\ LET req == Request(client, "POST", "/access-keys/", 0, NoData)
         args == [key_name |-> key_name]
     IN  \E x \in Exchanges(server, req) :
           LET step == create_key_after_post(x.resp, key_name)
           IN  /\ server' = x.server
               /\ IF step.next = "rename"
                  THEN /\ pc' = [pc EXCEPT ![c] = "rename"]
                       /\ frame' = [frame EXCEPT ![c] =
                            [op |-> "create_key", args |-> args,
                             sent |-> <<req>>, resps |-> <<x.resp>>]]
                       /\ last' = last
                  ELSE /\ last' = Completed("create_key", args, <<req>>,
                                            <<x.resp>>, step.outcome)
                       /\ UNCHANGED <<pc, frame>>
  /\ client' = self_after_call(client)
  /\ UNCHANGED <<ctor, presented, fp_checks, gone>>

create_key_rename(c) ==
  /\ last = NoCall
  /\ pc[c] = "rename"
  /\ LET key_name == frame[c].args.key_name
         outline_key == create_key_after_post(frame[c].resps[1], key_name).outcome.value
         req == RenameRequest(client, outline_key.key_id, key_name[1])
     IN  \E x \in Exchanges(server, req) :
           /\ server' = x.server
           /\ last' = Completed("create_key", frame[c].args,
                                Append(frame[c].sent, req),
                                Append(frame[c].resps, x.resp),
                                create_key_after_rename(outline_key, key_name, x.resp))
  /\ pc' = [pc EXCEPT ![c] = "idle"]
  /\ frame' = [frame EXCEPT ![c] = NoFrame]
  /\ client' = self_after_call(client)
  /\ UNCHANGED <<ctor, presented, fp_checks, gone>>

delete_key(c, key_id) ==
  /\ CanCall(c)
  /\ LET req == Request(client, "DELETE", "/access-keys/{key_id}", key_id, NoData)
     IN  \E x \in Exchanges(server, req) :
           Call1(c, "delete_key", [key_id |-> key_id], req, x,
                 delete_key_result(x.resp))

rename_key(c, key_id, name) ==
  /\ CanCall(c)
  /\ LET req == RenameRequest(client, key_id, name)
     IN  \E x \in Exchanges(server, req) :
           Call1(c, "rename_key", [key_id |-> key_id, name |-> name], req, x,
                 rename_key_result(x.resp))

add_data_limit(c, key_id, limit_bytes) ==
  /\ CanCall(c)
  /\ LET req == Request(client, "PUT", "/access-keys/{key_id}/data-limit", key_id,
                       [json |-> [limit |-> [bytes |-> limit_bytes]]])
     IN  \E x \in Exchanges(server, req) :
           Call1(c, "add_data_limit", [key_id |-> key_id, limit_bytes |-> limit_bytes], req, x,
                 add_data_limit_result(x.resp))

delete_data_limit(c, key_id) ==
  /\ CanCall(c)
  /\ LET req == Request(client, "DELETE", "/access-keys/{key_id}/data-limit", key_id, NoData)
     IN  \E x \in Exchanges(server, req) :
           Call1(c, "delete_data_limit", [key_id |-> key_id], req, x,
                 delete_data_limit_result(x.resp))

get_transferred_data(c) ==
  /\ CanCall(c)
  /\ LET req == Request(client, "GET", "/metrics/transfer", 0, NoData)
     IN  \E x \in Exchanges(server, req) :
           Call1(c, "get_transferred_data", NoArgs, req, x,
                 get_transferred_data_result(x.resp))

get_server_information(c) ==
  /\ CanCall(c)
  /\ LET req == Request(client, "GET", "/server", 0, NoData)
     IN  \E x \in Exchanges(server, req) :
           Call1(c, "get_server_information", NoArgs, req, x,
                 get_server_information_result(x.resp))

set_server_name(c, name) ==
  /\ CanCall(c)
  /\ LET req == Request(client, "PUT", "/name", 0, [json |-> [name |-> name]])
     IN  \E x \in Exchanges(server, req) :
           Call1(c, "set_server_name", [name |-> name], req, x,
                 set_server_name_result(x.resp))

set_hostname(c, hostname) ==
  /\ CanCall(c)
  /\ LET req == Request(client, "PUT", "/server/hostname-for-access-keys", 0,
                       [json |-> [hostname |-> hostname]])
     IN  \E x \in Exchanges(server, req) :
           Call1(c, "set_hostname", [hostname |-> hostname], req, x,
                 set_hostname_result(x.resp))

get_metrics_status(c) ==
  /\ CanCall(c)
  /\ LET req == Request(client, "GET", "/metrics/enabled", 0, NoData)
     IN  \E x \in Exchanges(server, req) :
           Call1(c, "get_metrics_status", NoArgs, req, x,
                 get_metrics_status_result(x.resp))

set_metrics_status(c, status) ==
  /\ CanCall(c)
  /\ LET req == Request(client, "PUT", "/metrics/enabled", 0,
                       [json |-> [metricsEnabled |-> status]])
     IN  \E x \in Exchanges(server, req) :
           Call1(c, "set_metrics_status", [status |-> status], req, x,
                 set_metrics_status_result(x.resp))

set_port_new_for_access_keys(c, port) ==
  /\ CanCall(c)
  /\ LET req == Request(client, "PUT", "/server/port-for-new-access-keys", 0,
                       [json |-> [port |-> port]])
     IN  \E x \in Exchanges(server, req) :
           Call1(c, "set_port_new_for_access_keys", [port |-> port], req, x,
                 set_port_new_for_access_keys_result(x.resp))

set_data_limit_for_all_keys(c, limit_bytes) ==
  /\ CanCall(c)
  /\ LET req == Request(client, "PUT", "/server/access-key-data-limit", 0,
                       [json |-> [limit |-> [bytes |-> limit_bytes]]])
     IN  \E x \in Exchanges(server, req) :
           Call1(c, "set_data_limit_for_all_keys", [limit_bytes |-> limit_bytes], req, x,
                 set_data_limit_for_all_keys_result(x.resp))

delete_data_limit_for_all_keys(c) ==
  /\ CanCall(c)
  /\ LET req == Request(client, "DELETE", "/server/access-key-data-limit", 0, NoData)
     IN  \E x \in Exchanges(server, req) :
           Call1(c, "delete_data_limit_for_all_keys", NoArgs, req, x,
                 delete_data_limit_for_all_keys_result(x.resp))

\* The method that has just completed hands its result to its caller.
Returns ==
  /\ last # NoCall
  /\ last' = NoCall
  /\ UNCHANGED <<client, ctor, presented, fp_checks, server, pc, frame, gone>>

\* The steps of the callers cs, of the server, and the hand-over of a result.
NextFor(cs) ==
  \/ Returns
  \/ ServerCountsTraffic
  \/ \E c \in cs : get_keys(c)
  \/ \E c \in cs : get_keys_metrics(c)
  \/ \E c \in cs, key_name \in KeyNameArgs : create_key(c, key_name)
  \/ \E c \in cs : create_key_rename(c)
  \/ \E c \in cs, key_id \in KeyIds : delete_key(c, key_id)
  \/ \E c \in cs, key_id \in KeyIds, name \in NameArgs : rename_key(c, key_id, name)
  \/ \E c \in cs, key_id \in KeyIds : add_data_limit(c, key_id, 1024)
  \/ \E c \in cs, key_id \in KeyIds : delete_data_limit(c, key_id)
  \/ \E c \in cs : get_transferred_data(c)
  \/ \E c \in cs : get_server_information(c)
  \/ \E c \in cs : set_server_name(c, "My Server")
  \/ \E c \in cs : set_hostname(c, "example.com")
  \/ \E c \in cs : get_metrics_status(c)
  \/ \E c \in cs : set_metrics_status(c, TRUE)
  \/ \E c \in cs : set_port_new_for_access_keys(c, 8080)
  \/ \E c \in cs : set_data_limit_for_all_keys(c, 1024)
  \/ \E c \in cs : delete_data_limit_for_all_keys(c)

Next == NextFor(Callers)

Spec == Init /\ [][Next]_vars

NextCert ==
  \/ \E api_url \in ApiUrls, cert_sha256 \in CertArgs :
       OutlineVPN_init(api_url, cert_sha256)
  \/ ServerCertChanges
  \/ NextFor({"c1"})

\* The constructor with a fingerprint, then one caller.
SpecCert == InitCert /\ [][NextCert]_vars

(***************************************************************************)
(* Properties                                                              *)
(***************************************************************************)
Status(i) == last.resps[i].status
Body(i) == last.resps[i].body
HasField(body, f) == body.json /\ f \in DOMAIN body.obj
Returned == last.outcome.kind = "return"
KeysOk(resp) == resp.status = 200 /\ HasField(resp.body, "accessKeys")

\* C1: set_port_new_for_access_keys raises ServerError with the port-range
\* message on status 400, raises ServerError with the port-in-use message on
\* status 409, returns True on 204 and only then, and returns False without
\* raising on every other status.
C1_SetPort ==
  last.op = "set_port_new_for_access_keys" =>
    /\ Status(1) = 400 => last.outcome = Raise(ServerError, PortRangeMsg)
    /\ Status(1) = 409 => last.outcome = Raise(ServerError, PortInUseMsg)
    /\ Status(1) = 204 <=> last.outcome = Return(TRUE)
    /\ Status(1) \notin {204, 400, 409} => last.outcome = Return(FALSE)

C1_Witness ==
  /\ last.op = "set_port_new_for_access_keys"
  /\ Status(1) = 409
  /\ last.outcome.kind = "raise"
  /\ last.outcome.msg = PortInUseMsg

\* C2 as stated, read for responses whose bodies are JSON objects: get_keys
\* returns a list only when both responses have status 200 and carry their
\* field; otherwise it raises "Unable to retrieve keys" when the first call
\* failed and "Unable to get metrics" when the metrics call failed or its body
\* lacks bytesTransferredByUserId.
C2_Original ==
  (last.op = "get_keys" /\ \A i \in DOMAIN last.resps : Body(i).json) =>
    LET ok1 == KeysOk(last.resps[1])
        ok2 == /\ Len(last.resps) = 2
               /\ Status(2) = 200
               /\ HasField(Body(2), "bytesTransferredByUserId")
    IN  /\ Returned => ok1 /\ ok2
        /\ ~ok1 => last.outcome = Raise(ServerError, "Unable to retrieve keys")
        /\ (ok1 /\ ~ok2) => last.outcome = Raise(ServerError, "Unable to get metrics")

\* C2, amended: get_keys returns a list exactly when the access-keys response
\* has status 200 with accessKeys and the metrics response has a status below
\* 400 with bytesTransferredByUserId.  It raises "Unable to retrieve keys"
\* when the first response has another status or lacks accessKeys, and
\* "Unable to get metrics" when the metrics status is 400 or more or its body
\* lacks the field; a body that is read and is not JSON raises the decoding
\* error of response.json() instead.
C2_GetKeys ==
  last.op = "get_keys" =>
    IF Status(1) # 200
      THEN last.outcome = Raise(ServerError, "Unable to retrieve keys")
    ELSE IF ~Body(1).json
      THEN last.outcome = JSONDecodeError
    ELSE IF ~HasField(Body(1), "accessKeys")
      THEN last.outcome = Raise(ServerError, "Unable to retrieve keys")
    ELSE /\ Len(last.resps) = 2
         /\ IF Status(2) >= 400
              THEN last.outcome = Raise(ServerError, "Unable to get metrics")
            ELSE IF ~Body(2).json
              THEN last.outcome = JSONDecodeError
            ELSE IF ~HasField(Body(2), "bytesTransferredByUserId")
              THEN last.outcome = Raise(ServerError, "Unable to get metrics")
            ELSE Returned

C2_Witness ==
  /\ last.op = "get_keys"
  /\ Len(last.resps) = 2
  /\ Status(2) \notin {200} /\ Status(2) < 400
  /\ HasField(Body(2), "bytesTransferredByUserId")
  /\ Returned
  /\ Len(last.outcome.value) = 2

CreateArgsNamed == last.op = "create_key" /\ Truthy(last.args.key_name)

\* C3: create_key with a requested name, when the POST is answered 201 with a
\* key: the call returns a record and raises nothing; its name is the
\* requested name when the rename was answered 204 and the name of the POST
\* body when the rename was answered with any other status.
C3_CreateName ==
  (CreateArgsNamed /\ Status(1) = 201 /\ Body(1).json) =>
    /\ Len(last.resps) = 2
    /\ Returned
    /\ Status(2) = 204 => last.outcome.value.name = last.args.key_name[1]
    /\ Status(2) # 204 => last.outcome.value.name = Body(1).obj.name
    /\ last.outcome.value.name \in {last.args.key_name[1], Body(1).obj.name}

C3_Witness ==
  /\ CreateArgsNamed
  /\ Len(last.resps) = 2
  /\ Status(2) = 404
  /\ Returned
  /\ last.outcome.value.name = ""
  /\ last.outcome.value.name # last.args.key_name[1]

\* C4: create_key returns a record whose used_bytes is 0 whenever the POST is
\* answered 201 (with a key), with or without a requested name and whatever
\* the server's metrics hold, and never asks the metrics endpoint; on any
\* other status it raises ServerError("Unable to create key").
C4_CreateBytes ==
  last.op = "create_key" =>
    /\ (Status(1) = 201 /\ Body(1).json) =>
         Returned /\ last.outcome.value.used_bytes = Some(0)
    /\ (Status(1) = 201 /\ Returned) => last.outcome.value.used_bytes = Some(0)
    /\ Status(1) # 201 =>
         last.outcome = Raise(ServerError, "Unable to create key")
    /\ \A i \in DOMAIN last.sent : last.sent[i].path # "/metrics/transfer"

C4_Witness ==
  /\ CreateArgsNamed
  /\ Status(1) = 201
  /\ Returned
  /\ last.outcome.value.used_bytes = Some(0)
  /\ DOMAIN server.bytes # {}

BoolOps ==
  {"delete_key", "rename_key", "add_data_limit", "delete_data_limit",
   "set_server_name", "set_hostname", "set_metrics_status",
   "set_data_limit_for_all_keys", "delete_data_limit_for_all_keys"}

\* C6: delete_key, rename_key, add_data_limit, delete_data_limit,
\* set_server_name, set_hostname, set_metrics_status,
\* set_data_limit_for_all_keys and delete_data_limit_for_all_keys return True
\* exactly when the status is 204, False for every other status, and never
\* raise.
C6_BoolOps ==
  last.op \in BoolOps =>
    /\ Returned
    /\ last.outcome.value = (Status(1) = 204)

C6_Witness ==
  /\ last.op = "set_hostname"
  /\ Status(1) = 409
  /\ last.outcome = Return(FALSE)

\* C7: a list returned by get_keys has one record per entry of accessKeys, in
\* the same order, each with the entry's fields and with used_bytes the value
\* bytesTransferredByUserId maps the entry's id to, or None when the mapping
\* has no entry for it.
C7_Join ==
  (last.op = "get_keys" /\ Returned) =>
    LET accessKeys == Body(1).obj.accessKeys
        transferred == Body(2).obj.bytesTransferredByUserId
        result == last.outcome.value
    IN  /\ Len(result) = Len(accessKeys)
        /\ \A i \in 1..Len(accessKeys) :
             /\ result[i].key_id = accessKeys[i].id
             /\ result[i].name = accessKeys[i].name
             /\ result[i].password = accessKeys[i].password
             /\ result[i].port = accessKeys[i].port
             /\ result[i].method = accessKeys[i].method
             /\ result[i].access_url = accessKeys[i].accessUrl
             /\ accessKeys[i].id \in DOMAIN transferred =>
                  result[i].used_bytes = Some(transferred[accessKeys[i].id])
             /\ accessKeys[i].id \notin DOMAIN transferred =>
                  result[i].used_bytes = None

C7_Witness ==
  /\ last.op = "get_keys"
  /\ Returned
  /\ Len(last.outcome.value) = 2
  /\ last.outcome.value[1].key_id = 1
  /\ last.outcome.value[1].used_bytes = None
  /\ last.outcome.value[2].used_bytes = Some(2000)

\* C9: a completed call has sent one or two requests, one response each.
\* get_keys sends GET /access-keys/ and then GET /metrics/transfer exactly
\* when the first answer was 200 with accessKeys; create_key sends POST
\* /access-keys/ and then the rename PUT exactly when the POST was answered
\* 201 (with a key) and a name was requested; every other method sends one
\* request.  No request is sent twice, and a call in progress has sent one
\* request, which succeeded.
C9_Requests ==
  /\ last.op # "none" =>
       /\ Len(last.sent) \in {1, 2}
       /\ Len(last.resps) = Len(last.sent)
       /\ Len(last.sent) = 2 => last.sent[1] # last.sent[2]
       /\ last.op = "get_keys" =>
            /\ last.sent[1].method = "GET" /\ last.sent[1].path = "/access-keys/"
            /\ Len(last.sent) = 2 <=> KeysOk(last.resps[1])
            /\ Len(last.sent) = 2 =>
                 last.sent[2].method = "GET" /\ last.sent[2].path = "/metrics/transfer"
       /\ last.op = "create_key" =>
            /\ last.sent[1].method = "POST" /\ last.sent[1].path = "/access-keys/"
            /\ Len(last.sent) = 2 <=>
                 (Status(1) = 201 /\ Body(1).json /\ Truthy(last.args.key_name))
            /\ Len(last.sent) = 2 =>
                 /\ last.sent[2].method = "PUT"
                 /\ last.sent[2].path = "/access-keys/{key_id}/name"
                 /\ last.sent[2].key_id = Body(1).obj.id
       /\ last.op \notin {"get_keys", "create_key"} => Len(last.sent) = 1
  /\ \A c \in Callers :
       /\ pc[c] = "idle" => frame[c] = NoFrame
       /\ pc[c] = "metrics" =>
            /\ frame[c].op = "get_keys"
            /\ Len(frame[c].sent) = 1 /\ Len(frame[c].resps) = 1
            /\ KeysOk(frame[c].resps[1])
       /\ pc[c] = "rename" =>
            /\ frame[c].op = "create_key"
            /\ Len(frame[c].sent) = 1 /\ Len(frame[c].resps) = 1
            /\ frame[c].resps[1].status = 201
            /\ Truthy(frame[c].args.key_name)

C9_Witness ==
  /\ last.op = "get_keys"
  /\ Len(last.sent) = 2
  /\ Status(2) = 404
  /\ last.outcome.kind = "raise"

IdsOf(keys) == {keys[i].id : i \in DOMAIN keys}
DeleteCompletes == last = NoCall /\ last'.op = "delete_key"

Mismatch(cert, cert_sha256) == Lower(cert) # Lower(cert_sha256[1])

C8_Inv ==
  /\ fp_checks <= 1
  /\ client.state = "failed" =>
       /\ Truthy(ctor.cert_sha256)
       /\ Mismatch(presented, ctor.cert_sha256)
       /\ last = NoCall
       /\ \A c \in Callers : pc[c] = "idle" /\ frame[c] = NoFrame
       /\ server = [keys |-> <<>>, bytes |-> <<>>, nextId |-> 1]
  /\ last # NoCall => client.state = "ok"

C8_Step ==
  /\ (client.state = "none" /\ Truthy(ctor'.cert_sha256)) =>
       /\ fp_checks' = 1
       /\ Mismatch(presented, ctor'.cert_sha256) =>
            client'.state = "failed" /\ last' = NoCall /\ server' = server
       /\ ~Mismatch(presented, ctor'.cert_sha256) => client'.state = "ok"
  /\ client.state # "none" =>
       /\ fp_checks' = fp_checks
       /\ client'.state = client.state

\* C8: when the constructor is given a fingerprint and the server presents a
\* certificate with another fingerprint, construction fails (no usable client)
\* and no management request has been or is ever sent; the fingerprint is
\* checked once, in the constructor, and no later step checks it again.
C8_Pinning == [](C8_Inv) /\ [][C8_Step]_vars

C8_Witness ==
  /\ client.state = "failed"
  /\ ctor.cert_sha256 = Some("cd34")
  /\ presented = "ab12"
  /\ fp_checks = 1

\* What a completed call returns or raises, from its arguments and the
\* responses to its own requests.
OutcomeOf(op, args, resps) ==
  CASE op = "get_keys" ->
         IF Len(resps) = 1 THEN get_keys_after_keys(resps[1]).outcome
         ELSE get_keys_after_metrics(resps[1], resps[2])
    [] op = "create_key" ->
         IF Len(resps) = 1 THEN create_key_after_post(resps[1], args.key_name).outcome
         ELSE create_key_after_rename(
                create_key_after_post(resps[1], args.key_name).outcome.value,
                args.key_name, resps[2])
    [] op = "delete_key" -> delete_key_result(resps[1])
    [] op = "rename_key" -> rename_key_result(resps[1])
    [] op = "add_data_limit" -> add_data_limit_result(resps[1])
    [] op = "delete_data_limit" -> delete_data_limit_result(resps[1])
    [] op = "get_transferred_data" -> get_transferred_data_result(resps[1])
    [] op = "get_server_information" -> get_server_information_result(resps[1])
    [] op = "set_server_name" -> set_server_name_result(resps[1])
    [] op = "set_hostname" -> set_hostname_result(resps[1])
    [] op = "get_metrics_status" -> get_metrics_status_result(resps[1])
    [] op = "set_metrics_status" -> set_metrics_status_result(resps[1])
    [] op = "set_port_new_for_access_keys" ->
         set_port_new_for_access_keys_result(resps[1])
    [] op = "set_data_limit_for_all_keys" ->
         set_data_limit_for_all_keys_result(resps[1])
    [] op = "delete_data_limit_for_all_keys" ->
         delete_data_limit_for_all_keys_result(resps[1])

C10_Inv ==
  /\ client = [state |-> "ok", api_url |-> ctor.api_url]
  /\ last.op # "none" =>
       /\ last.outcome = OutcomeOf(last.op, last.args, last.resps)
       /\ \A i \in DOMAIN last.sent : last.sent[i].base = ctor.api_url
  /\ \A c \in Callers : \A i \in DOMAIN frame[c].sent :
       frame[c].sent[i].base = ctor.api_url

C10_Step ==
  /\ client' = client
  /\ \A c1, c2 \in Callers :
       c1 # c2 => \/ frame'[c1] = frame[c1] /\ pc'[c1] = pc[c1]
                  \/ frame'[c2] = frame[c2] /\ pc'[c2] = pc[c2]

\* C10: no step of any method changes the client object (its base URL stays
\* the one given to the constructor and every request is sent to it), a step
\* of one caller leaves the calls in progress of the other callers as they
\* were, and what a call returns or raises is a function of its own arguments
\* and of the responses to its own requests, in every interleaving.
C10_Stateless == [](C10_Inv) /\ [][C10_Step]_vars

\* Caller c2 has created and renamed a key while get_keys of caller c1 is
\* between its two requests.
C10_Witness ==
  /\ pc["c1"] = "metrics"
  /\ last.op = "create_key"
  /\ Len(last.sent) = 2
  /\ Returned
  /\ last.outcome.value.key_id \notin IdsOf(frame["c1"].resps[1].body.obj.accessKeys)

====
